---- MODULE Spec2Model ----
(***************************************************************************)
(* Session controller of the speech-to-text front end (src/src/App.js):    *)
(* audio capture, the cancellable upload/transcription exchange, and the   *)
(* bounded history list with its object URLs and its localStorage copy.    *)
(*                                                                         *)
(* Every event handler of the component runs to completion on the single   *)
(* JavaScript thread, so each action below is one handler (or one          *)
(* continuation of an async function after an await), together with the    *)
(* React effects that its state updates trigger.                           *)
(*                                                                         *)
(* Representation:                                                         *)
(*   - strings that the code inspects (texts, MIME types) are sequences of *)
(*     one-character strings; messages the code only stores are strings;   *)
(*   - an object URL is an integer: 0 is the empty string '', n > 0 is the *)
(*     n-th URL returned by URL.createObjectURL in this page session, and  *)
(*     n < 0 is a "blob:" URL that a previous page session stored;         *)
(*   - an exchange is an index into `exchanges`, a recorder an index into  *)
(*     `recorders`; 0 stands for null.                                     *)
(***************************************************************************)
EXTENDS Integers, Sequences, FiniteSets, TLC

(* ---------------------------- bounds ----------------------------------- *)
MaxExchanges  == 2     \* uploads and recordings begun in one page session
MaxSeconds    == 1     \* seconds of one recording: timer ticks, timeslice chunks
MaxCopies     == 1     \* clipboard writes, and success time-outs, outstanding

(* ------------------------ program constants ---------------------------- *)
HistoryLimit == 10                   \* .slice(0, 10)
MaxFileSize  == 10 * 1024 * 1024     \* file.size > 10 * 1024 * 1024
NullId       == -1000                \* null in selectedHistory
EmptyUrl     == 0                    \* '' in audioUrl

(* ------------------------------ strings -------------------------------- *)
AudioPrefix == <<"a", "u", "d", "i", "o", "/">>
NoTranscription ==
    <<"N", "o", " ", "t", "r", "a", "n", "s", "c", "r", "i", "p", "t", "i", "o", "n",
      " ", "a", "v", "a", "i", "l", "a", "b", "l", "e">>
EmptyText == << >>

\* String.prototype.startsWith
StartsWith(s, p) ==
    /\ Len(s) >= Len(p)
    /\ \A i \in 1..Len(p) : s[i] = p[i]

\* the characters matched by \s in the texts used here
IsSpace(c) == c \in {" ", "\t", "\n"}

\* text.split(/\s+/).filter(word => word.length > 0).length :
\* the number of maximal runs of non-blank characters
RECURSIVE CountWords(_, _)
CountWords(s, i) ==
    IF i > Len(s) THEN 0
    ELSE (IF ~IsSpace(s[i]) /\ (i = 1 \/ IsSpace(s[i - 1])) THEN 1 ELSE 0)
         + CountWords(s, i + 1)

getStats(text) == [wordCount |-> CountWords(text, 1), charCount |-> Len(text)]

\* a string in a boolean context
Truthy(s) == Len(s) > 0


Min(a, b) == IF a < b THEN a ELSE b

(* ------------------------------ messages ------------------------------- *)
NoError          == ""
InvalidTypeError == "Please select a valid audio file"
OversizeError    == "File size must be less than 10MB"
UploadCancelled  == "Upload cancelled"
TranscribeFailed == "Failed to transcribe audio"
CopyFailed       == "Failed to copy to clipboard"
RecordedName     == "recorded_audio.webm"

\* `Server error: ${response.status}` for the statuses the backend answers with
Statuses == {500}
ServerError(status) ==
    CASE status = 500 -> "Server error: 500"

\* err.message of a rejected fetch or of a failed response.json(); may be empty
FailureMessages == {"Failed to fetch", ""}

\* `Microphone error: ${err.message}`
GrantFailures == {"Permission denied"}
DeviceError(msg) ==
    CASE msg = "Permission denied" -> "Microphone error: Permission denied"

(* ------------------------------- inputs -------------------------------- *)
\* files the user can pick: declared type, byte size, name
FileTypes ==
    { <<"a", "u", "d", "i", "o", "/", "m", "p", "3">>,
      <<"i", "m", "a", "g", "e", "/", "p", "n", "g">>,
      <<"a", "u", "d", "i", "o">>,
      << >> }
FileSizes == {0, MaxFileSize, MaxFileSize + 1}
Candidates == [type : FileTypes, size : FileSizes, name : {"talk.mp3"}]

\* JSON bodies of a success response: each field present or not
Hi == <<" ", "h", "i", " ", " ", "y", "o", " ">>
Yo == <<"y", "o">>
ResponseBodies ==
    { [hasTranscription |-> TRUE,  transcription |-> Hi,        hasText |-> FALSE, text |-> EmptyText],
      [hasTranscription |-> FALSE, transcription |-> EmptyText, hasText |-> TRUE,  text |-> Hi],
      [hasTranscription |-> TRUE,  transcription |-> Hi,        hasText |-> TRUE,  text |-> Yo],
      [hasTranscription |-> FALSE, transcription |-> EmptyText, hasText |-> FALSE, text |-> EmptyText] }

\* bodies whose transcription field is there and is the empty string
EmptyFieldBodies ==
    { [hasTranscription |-> TRUE,  transcription |-> EmptyText, hasText |-> TRUE,  text |-> Yo],
      [hasTranscription |-> TRUE,  transcription |-> EmptyText, hasText |-> FALSE, text |-> EmptyText] }

AllBodies == ResponseBodies \cup EmptyFieldBodies

\* Transcription taking a field whenever the body has it
TranscriptionIfPresent(data) ==
    IF data.hasTranscription THEN data.transcription
    ELSE IF data.hasText THEN data.text
    ELSE NoTranscription

\* data.transcription || data.text || 'No transcription available'
\* (a missing field reads as undefined, which is falsy like the empty string)
Transcription(data) ==
    IF data.hasTranscription /\ Truthy(data.transcription) THEN data.transcription
    ELSE IF data.hasText /\ Truthy(data.text) THEN data.text
    ELSE NoTranscription

(* ------------------------------ variables ------------------------------ *)
VARIABLES
    recording,          \* useState(false)
    transcript,         \* useState('')
    loading,            \* useState(false)
    error,              \* useState('')
    success,            \* useState(false)
    recordingTime,      \* useState(0)
    audioUrl,           \* useState('')
    history,            \* useState([])
    selectedHistory,    \* useState(null)
    uploadController,   \* useState(null): the exchange whose AbortController is stored
    mediaRecorderRef,   \* useRef(null): the recorder stored
    audioChunksRef,     \* useRef([]): the shared chunk buffer
    recorders,          \* the MediaRecorder objects created, with their streams
    pendingGrants,      \* getUserMedia promises not yet settled
    localStorage,       \* the value under 'speechToTextHistory'
    exchanges,          \* the calls of sendAudioToBackend
    createdUrls,        \* number of URL.createObjectURL calls for audio
    revokedUrls,        \* URLs passed to URL.revokeObjectURL
    now,                \* the last value Date.now() returned
    clipboardWrites,    \* navigator.clipboard.writeText promises not yet settled
    successTimers       \* setTimeout(() => setSuccess(false), 2000) pending

vars ==
    << recording, transcript, loading, error, success, recordingTime, audioUrl,
       history, selectedHistory, uploadController, mediaRecorderRef,
       audioChunksRef, recorders, pendingGrants, localStorage, exchanges,
       createdUrls, revokedUrls, now, clipboardWrites, successTimers >>

captureVars == << mediaRecorderRef, audioChunksRef, recorders, pendingGrants >>
urlVars     == << createdUrls, revokedUrls >>
copyVars    == << clipboardWrites, successTimers >>
storeVars   == << history, localStorage >>

(* --------------------------- object URLs ------------------------------- *)
\* item.audioUrl && item.audioUrl.startsWith('blob:'): every URL that
\* URL.createObjectURL returned, in this page session or an earlier one
IsBlobUrl(u) == u # EmptyUrl

\* the URL the next URL.createObjectURL call returns
NewUrl == createdUrls + 1

\* a URL of this page session whose resource has not been released (the
\* resources behind the URLs of an earlier page session died with it)
Valid(u) == u \in 1..createdUrls /\ u \notin revokedUrls

(* ------------------------ history and its copy ------------------------- *)
\* new Date().toLocaleString()
LocaleString(t) == <<"at", t>>

\* the record built on a success response
HistoryItem(transcription, filename, url, t) ==
    [ id        |-> t,
      timestamp |-> LocaleString(t),
      text      |-> transcription,
      filename  |-> filename,
      audioUrl  |-> url,
      wordCount |-> getStats(transcription).wordCount,
      charCount |-> Len(transcription) ]

\* Insert with the slice taken one entry too long
InsertSliceEleven(prev, item) ==
    SubSeq(<<item>> \o prev, 1, Min(Len(prev) + 1, HistoryLimit + 1))

\* [historyItem, ...prev].slice(0, 10)
Insert(prev, item) ==
    SubSeq(<<item>> \o prev, 1, Min(Len(prev) + 1, HistoryLimit))

\* Stringify writing the newest record only
StringifyNewest(h) ==
    [i \in 1..Min(Len(h), 1) |->
        << h[i].id, h[i].timestamp, h[i].text, h[i].filename, h[i].audioUrl,
           h[i].wordCount, h[i].charCount >>]

\* JSON.stringify(history): the records' fields in key order
Stringify(h) ==
    [i \in 1..Len(h) |->
        << h[i].id, h[i].timestamp, h[i].text, h[i].filename, h[i].audioUrl,
           h[i].wordCount, h[i].charCount >>]

\* JSON.parse of a value written by Stringify
Parse(items) ==
    [i \in 1..Len(items) |->
        [ id        |-> items[i][1],
          timestamp |-> items[i][2],
          text      |-> items[i][3],
          filename  |-> items[i][4],
          audioUrl  |-> items[i][5],
          wordCount |-> items[i][6],
          charCount |-> items[i][7] ]]

\* the value under the key: whether there is one, whether JSON.parse accepts
\* it, whether what it parses to is a list of records, and the records
Absent == [present |-> FALSE, wellFormed |-> FALSE, list |-> FALSE, items |-> << >>]
Malformed == [present |-> TRUE, wellFormed |-> FALSE, list |-> FALSE, items |-> << >>]
NotAList == [present |-> TRUE, wellFormed |-> TRUE, list |-> FALSE, items |-> << >>]
Stored(h) == [present |-> TRUE, wellFormed |-> TRUE, list |-> TRUE, items |-> Stringify(h)]

\* the mount effect: getItem, then JSON.parse inside try/catch.  A value
\* that parses is passed to setHistory as it is; for one that is no list
\* (the text null, say) the list the first render showed is kept here
LoadHistory(ls) ==
    IF ls.present /\ ls.wellFormed /\ ls.list THEN Parse(ls.items) ELSE << >>

\* The component is on the page.  The render that follows setHistory of a
\* value that is no list throws (history.length, history.map) and React
\* removes the component: no handler of it runs afterwards, and the store
\* keeps the value, which nothing rewrites
Mounted == ~(localStorage.present /\ localStorage.wellFormed /\ ~localStorage.list)

\* SaveEffect without the test for an empty list
SaveEffectAlways(h, ls) == Stored(h)

\* the effect on [history]: setItem only when the list is not empty
SaveEffect(h, ls) == IF Len(h) > 0 THEN Stored(h) ELSE ls

\* what an earlier page session left in the store: n records, newest first,
\* made before this session's clock started, with that session's URLs
OldText == <<"o", "l", "d">>
Earlier(n) ==
    [i \in 1..n |-> HistoryItem(OldText, RecordedName, 0 - i, 0 - i)]
InitialStores == {Absent, Stored(Earlier(HistoryLimit))}

(* -------------------------------- Init --------------------------------- *)
Init ==
    /\ recording = FALSE
    /\ transcript = EmptyText
    /\ loading = FALSE
    /\ error = NoError
    /\ success = FALSE
    /\ recordingTime = 0
    /\ audioUrl = EmptyUrl
    /\ selectedHistory = NullId
    /\ uploadController = 0
    /\ mediaRecorderRef = 0
    /\ audioChunksRef = << >>
    /\ recorders = << >>
    /\ pendingGrants = 0
    /\ exchanges = << >>
    /\ createdUrls = 0
    /\ revokedUrls = {}
    /\ now = 0
    /\ clipboardWrites = 0
    /\ successTimers = 0
    /\ \E ls \in InitialStores :
          /\ history = LoadHistory(ls)
          /\ localStorage = SaveEffect(LoadHistory(ls), ls)

(* ------------------------------ validation ---------------------------- *)
\* Validate with the size compared by >=
ValidateAtLeast(file) ==
    IF ~StartsWith(file.type, AudioPrefix) THEN InvalidTypeError
    ELSE IF file.size >= MaxFileSize THEN OversizeError
    ELSE NoError

\* handleFileUpload's two checks, in the order the code makes them
Validate(file) ==
    IF ~StartsWith(file.type, AudioPrefix) THEN InvalidTypeError
    ELSE IF file.size > MaxFileSize THEN OversizeError
    ELSE NoError

(* --------------------------- sendAudioToBackend ------------------------ *)
Pending(i) == i \in 1..Len(exchanges) /\ exchanges[i].status = "Pending"

\* the calls of sendAudioToBackend made, plus those that the recordings
\* under way will make when they stop
Begun ==
    Len(exchanges) + pendingGrants
    + Cardinality({r \in 1..Len(recorders) : recorders[r].state # "inactive"})

\* up to the await of fetch: the in-flight marker is set, the transcript is
\* emptied, a new AbortController is stored and the POST leaves
SendStart(filename, url, recorder, payload) ==
    /\ loading' = TRUE
    /\ transcript' = EmptyText
    /\ uploadController' = Len(exchanges) + 1
    /\ exchanges' = Append(exchanges,
            [ filename |-> filename,
              audioUrl |-> url,
              recorder |-> recorder,
              payload  |-> payload,
              phase    |-> "fetch",
              status   |-> "Pending" ])

\* Finally without setLoading(false)
FinallyKeepsLoading(i) ==
    /\ loading' = loading
    /\ uploadController' = 0
    /\ recorders' =
          IF exchanges[i].recorder # 0
          THEN [recorders EXCEPT ![exchanges[i].recorder].released = TRUE]
          ELSE recorders

\* Finally without the statement that stops the tracks
FinallyKeepsStream(i) ==
    /\ loading' = FALSE
    /\ uploadController' = 0
    /\ recorders' = recorders

\* the finally block, and for a recording the statement after the await in
\* onstop, which stops the tracks of that recording's stream
Finally(i) ==
    /\ loading' = FALSE
    /\ uploadController' = 0
    /\ recorders' =
          IF exchanges[i].recorder # 0
          THEN [recorders EXCEPT ![exchanges[i].recorder].released = TRUE]
          ELSE recorders

\* the catch block for an error that is not an AbortError
Catch(i, message) ==
    /\ error' = IF message # "" THEN message ELSE TranscribeFailed
    /\ exchanges' = [exchanges EXCEPT ![i].status = "Failed", ![i].phase = "done"]
    /\ Finally(i)
    /\ UNCHANGED << recording, transcript, success, recordingTime, audioUrl,
                    selectedHistory, mediaRecorderRef, audioChunksRef,
                    pendingGrants, storeVars, urlVars, now, copyVars >>

\* fetch resolves with a response whose ok flag is false
ResponseNotOk(i, status) ==
    /\ Mounted
    /\ Pending(i)
    /\ exchanges[i].phase = "fetch"
    /\ Catch(i, ServerError(status))

\* fetch rejects: no response
FetchRejects(i, message) ==
    /\ Mounted
    /\ Pending(i)
    /\ exchanges[i].phase = "fetch"
    /\ Catch(i, message)

\* fetch resolves with an ok response; its body is still to be read
ResponseOk(i) ==
    /\ Mounted
    /\ Pending(i)
    /\ exchanges[i].phase = "fetch"
    /\ exchanges' = [exchanges EXCEPT ![i].phase = "json"]
    /\ UNCHANGED << recording, transcript, loading, error, success, recordingTime,
                    audioUrl, selectedHistory, uploadController, captureVars,
                    storeVars, urlVars, now, copyVars >>

\* response.json() rejects: the body is no JSON
JsonRejects(i, message) ==
    /\ Mounted
    /\ Pending(i)
    /\ exchanges[i].phase = "json"
    /\ Catch(i, message)

\* response.json() resolves: the success path.  t is what Date.now() returns,
\* the last value read or a later one
JsonResolves(i, data, t) ==
    /\ Mounted
    /\ Pending(i)
    /\ exchanges[i].phase = "json"
    /\ t \in {now, now + 1}
    /\ now' = t
    /\ LET transcription == Transcription(data)
           historyItem == HistoryItem(transcription, exchanges[i].filename,
                                      exchanges[i].audioUrl, t)
       IN  /\ transcript' = transcription
           /\ success' = TRUE
           /\ history' = Insert(history, historyItem)
           /\ localStorage' = SaveEffect(history', localStorage)
    /\ exchanges' = [exchanges EXCEPT ![i].status = "Succeeded", ![i].phase = "done"]
    /\ Finally(i)
    /\ UNCHANGED << recording, error, recordingTime, audioUrl, selectedHistory,
                    mediaRecorderRef, audioChunksRef, pendingGrants, urlVars,
                    copyVars >>

\* CancelUpload without the call of abort(): the marker is cleared and the
\* request goes on
CancelUploadNoAbort ==
    /\ Mounted
    /\ loading
    /\ loading' = IF uploadController # 0 THEN FALSE ELSE loading
    /\ uploadController' = 0
    /\ UNCHANGED << recording, transcript, error, success, recordingTime, audioUrl,
                    selectedHistory, captureVars, storeVars, exchanges, urlVars,
                    now, copyVars >>

\* the Cancel button (shown while loading).  abort() rejects the awaited
\* promise with an AbortError inside the call, so the catch and finally
\* blocks of the aborted exchange run before any other handler
CancelUpload ==
    /\ Mounted
    /\ loading
    /\ IF uploadController # 0 /\ Pending(uploadController)
       THEN /\ error' = UploadCancelled
            /\ exchanges' = [exchanges EXCEPT ![uploadController].status = "Cancelled",
                                              ![uploadController].phase = "done"]
            /\ Finally(uploadController)
       ELSE /\ loading' = IF uploadController # 0 THEN FALSE ELSE loading
            /\ uploadController' = 0
            /\ UNCHANGED << error, exchanges, recorders >>
    /\ UNCHANGED << recording, transcript, success, recordingTime, audioUrl,
                    selectedHistory, mediaRecorderRef, audioChunksRef,
                    pendingGrants, storeVars, urlVars, now, copyVars >>

(* ----------------------------- handleFileUpload ------------------------ *)
\* HandleFileUpload with the error and success flags reset before the checks
HandleFileUploadResetsFirst(file) ==
    /\ Mounted
    /\ ~loading
    /\ ~recording
    /\ IF Validate(file) # NoError
       THEN /\ error' = Validate(file)
            /\ success' = FALSE
            /\ UNCHANGED << transcript, loading, audioUrl,
                            uploadController, exchanges, createdUrls >>
       ELSE /\ Begun < MaxExchanges
            /\ error' = NoError
            /\ success' = FALSE
            /\ createdUrls' = NewUrl
            /\ audioUrl' = NewUrl
            /\ SendStart(file.name, NewUrl, 0, << >>)
    /\ UNCHANGED << recording, recordingTime, selectedHistory, captureVars,
                    storeVars, revokedUrls, now, copyVars >>

\* the file input (disabled while loading or recording) reports a file
HandleFileUpload(file) ==
    /\ Mounted
    /\ ~loading
    /\ ~recording
    /\ IF Validate(file) # NoError
       THEN /\ error' = Validate(file)
            /\ UNCHANGED << transcript, loading, success, audioUrl,
                            uploadController, exchanges, createdUrls >>
       ELSE /\ Begun < MaxExchanges
            /\ error' = NoError
            /\ success' = FALSE
            /\ createdUrls' = NewUrl
            /\ audioUrl' = NewUrl
            /\ SendStart(file.name, NewUrl, 0, << >>)
    /\ UNCHANGED << recording, recordingTime, selectedHistory, captureVars,
                    storeVars, revokedUrls, now, copyVars >>

(* -------------------------------- capture ------------------------------ *)
\* the record button while not recording (disabled while loading):
\* startRecording up to the await of getUserMedia
StartRecording ==
    /\ Mounted
    /\ ~recording
    /\ ~loading
    /\ Begun < MaxExchanges
    /\ error' = NoError
    /\ success' = FALSE
    /\ transcript' = EmptyText
    /\ audioUrl' = EmptyUrl
    /\ pendingGrants' = pendingGrants + 1
    /\ UNCHANGED << recording, loading, recordingTime, selectedHistory,
                    uploadController, mediaRecorderRef, audioChunksRef, recorders,
                    storeVars, exchanges, urlVars, now, copyVars >>

\* getUserMedia resolves: a recorder is made on the stream and started; the
\* effect on [recording] starts the interval when recording turns true
GrantSucceeds ==
    /\ Mounted
    /\ pendingGrants > 0
    /\ pendingGrants' = pendingGrants - 1
    /\ recorders' = Append(recorders,
            [state |-> "recording", released |-> FALSE, emitted |-> 0,
             chunks |-> << >>])
    /\ mediaRecorderRef' = Len(recorders) + 1
    /\ audioChunksRef' = << >>
    /\ recording' = TRUE
    /\ UNCHANGED << transcript, loading, error, success, recordingTime, audioUrl,
                    selectedHistory, uploadController, storeVars, exchanges,
                    urlVars, now, copyVars >>

\* getUserMedia rejects
GrantFails(message) ==
    /\ Mounted
    /\ pendingGrants > 0
    /\ pendingGrants' = pendingGrants - 1
    /\ error' = DeviceError(message)
    /\ UNCHANGED << recording, transcript, loading, success, recordingTime,
                    audioUrl, selectedHistory, uploadController, mediaRecorderRef,
                    audioChunksRef, recorders, storeVars, exchanges, urlVars, now,
                    copyVars >>

\* ondataavailable of recorder r during the recording (one per second).
\* A chunk is <<recorder, number>>; the recorder's record keeps how many
\* chunks its device emitted and which of them had data
DataAvailable(r, nonEmpty) ==
    /\ Mounted
    /\ r \in 1..Len(recorders)
    /\ recorders[r].state = "recording"
    /\ recorders[r].emitted < MaxSeconds
    /\ recorders' = [recorders EXCEPT
          ![r].emitted = @ + 1,
          ![r].chunks = IF nonEmpty THEN Append(@, <<r, recorders[r].emitted + 1>>)
                        ELSE @]
    /\ audioChunksRef' =
          IF nonEmpty
          THEN Append(audioChunksRef, <<r, recorders[r].emitted + 1>>)
          ELSE audioChunksRef
    /\ UNCHANGED << recording, transcript, loading, error, success, recordingTime,
                    audioUrl, selectedHistory, uploadController, mediaRecorderRef,
                    pendingGrants, storeVars, exchanges, urlVars, now, copyVars >>

\* the record button while recording: stopRecording; the effect on
\* [recording] clears the interval and sets the elapsed time to 0
StopRecording ==
    /\ Mounted
    /\ recording
    /\ ~loading
    /\ mediaRecorderRef # 0
    /\ recorders[mediaRecorderRef].state = "recording"
    /\ recorders' = [recorders EXCEPT ![mediaRecorderRef].state = "stopping"]
    /\ recording' = FALSE
    /\ recordingTime' = 0
    /\ UNCHANGED << transcript, loading, error, success, audioUrl, selectedHistory,
                    uploadController, mediaRecorderRef, audioChunksRef,
                    pendingGrants, storeVars, exchanges, urlVars, now, copyVars >>

\* the task a stop() queues: the last dataavailable, then onstop up to the
\* await inside sendAudioToBackend
RecorderStops(r, nonEmpty) ==
    /\ Mounted
    /\ r \in 1..Len(recorders)
    /\ recorders[r].state = "stopping"
    /\ LET chunks == IF nonEmpty
                     THEN Append(audioChunksRef, <<r, recorders[r].emitted + 1>>)
                     ELSE audioChunksRef
       IN  /\ audioChunksRef' = chunks
           /\ recorders' = [recorders EXCEPT ![r].state = "inactive",
                                             ![r].emitted = @ + 1]
           /\ createdUrls' = NewUrl
           /\ audioUrl' = NewUrl
           /\ SendStart(RecordedName, NewUrl, r, chunks)
    /\ UNCHANGED << recording, error, success, recordingTime, selectedHistory,
                    mediaRecorderRef, pendingGrants, storeVars, revokedUrls, now,
                    copyVars >>

\* the interval callback
TimerTick ==
    /\ Mounted
    /\ recording
    /\ recordingTime < MaxSeconds
    /\ recordingTime' = recordingTime + 1
    /\ UNCHANGED << recording, transcript, loading, error, success, audioUrl,
                    selectedHistory, uploadController, captureVars, storeVars,
                    exchanges, urlVars, now, copyVars >>

(* ------------------------- transcript actions -------------------------- *)
\* URL.revokeObjectURL called on each of urls
Revoke(revoked, urls) == revoked \cup urls

\* the Copy button (shown with a transcript) up to the await of writeText
CopyToClipboard ==
    /\ Mounted
    /\ Truthy(transcript)
    /\ clipboardWrites < MaxCopies
    /\ clipboardWrites' = clipboardWrites + 1
    /\ UNCHANGED << recording, transcript, loading, error, success, recordingTime,
                    audioUrl, selectedHistory, uploadController, captureVars,
                    storeVars, exchanges, urlVars, now, successTimers >>

ClipboardResolves ==
    /\ Mounted
    /\ clipboardWrites > 0
    /\ successTimers < MaxCopies
    /\ clipboardWrites' = clipboardWrites - 1
    /\ successTimers' = successTimers + 1
    /\ success' = TRUE
    /\ UNCHANGED << recording, transcript, loading, error, recordingTime, audioUrl,
                    selectedHistory, uploadController, captureVars, storeVars,
                    exchanges, urlVars, now >>

ClipboardRejects ==
    /\ Mounted
    /\ clipboardWrites > 0
    /\ clipboardWrites' = clipboardWrites - 1
    /\ error' = CopyFailed
    /\ UNCHANGED << recording, transcript, loading, success, recordingTime,
                    audioUrl, selectedHistory, uploadController, captureVars,
                    storeVars, exchanges, urlVars, now, successTimers >>

\* setTimeout(() => setSuccess(false), 2000)
SuccessTimeout ==
    /\ Mounted
    /\ successTimers > 0
    /\ successTimers' = successTimers - 1
    /\ success' = FALSE
    /\ UNCHANGED << recording, transcript, loading, error, recordingTime, audioUrl,
                    selectedHistory, uploadController, captureVars, storeVars,
                    exchanges, urlVars, now, clipboardWrites >>

\* the Clear button (shown with a transcript)
ClearCurrent ==
    /\ Mounted
    /\ Truthy(transcript)
    /\ transcript' = EmptyText
    /\ audioUrl' = EmptyUrl
    /\ error' = NoError
    /\ success' = FALSE
    /\ revokedUrls' = IF audioUrl # EmptyUrl THEN Revoke(revokedUrls, {audioUrl})
                      ELSE revokedUrls
    /\ UNCHANGED << recording, loading, recordingTime, selectedHistory,
                    uploadController, captureVars, storeVars, exchanges,
                    createdUrls, now, copyVars >>

\* the Clear All button (shown with a non-empty history); the effect on
\* [history] finds the list empty and writes nothing
ClearHistory ==
    /\ Mounted
    /\ Len(history) > 0
    /\ revokedUrls' = Revoke(revokedUrls,
            {history[k].audioUrl : k \in {j \in 1..Len(history) : IsBlobUrl(history[j].audioUrl)}})
    /\ history' = << >>
    /\ localStorage' = SaveEffect(history', Absent)
    /\ selectedHistory' = NullId
    /\ UNCHANGED << recording, transcript, loading, error, success, recordingTime,
                    audioUrl, uploadController, captureVars, exchanges,
                    createdUrls, now, copyVars >>

\* LoadFromHistory releasing the URL on display before it shows the record's
LoadFromHistoryRevokes(k) ==
    /\ Mounted
    /\ k \in 1..Len(history)
    /\ transcript' = history[k].text
    /\ audioUrl' = history[k].audioUrl
    /\ selectedHistory' = history[k].id
    /\ error' = NoError
    /\ success' = FALSE
    /\ revokedUrls' = IF audioUrl # EmptyUrl THEN Revoke(revokedUrls, {audioUrl})
                      ELSE revokedUrls
    /\ UNCHANGED << recording, loading, recordingTime, uploadController,
                    captureVars, storeVars, exchanges, createdUrls, now, copyVars >>

\* a click on the k-th history entry
LoadFromHistory(k) ==
    /\ Mounted
    /\ k \in 1..Len(history)
    /\ transcript' = history[k].text
    /\ audioUrl' = history[k].audioUrl
    /\ selectedHistory' = history[k].id
    /\ error' = NoError
    /\ success' = FALSE
    /\ UNCHANGED << recording, loading, recordingTime, uploadController,
                    captureVars, storeVars, exchanges, urlVars, now, copyVars >>

(* ------------------------------ behaviours ----------------------------- *)
Next ==
    \/ StartRecording
    \/ GrantSucceeds
    \/ \E m \in GrantFailures : GrantFails(m)
    \/ \E r \in 1..MaxExchanges, b \in BOOLEAN : DataAvailable(r, b)
    \/ StopRecording
    \/ \E r \in 1..MaxExchanges, b \in BOOLEAN : RecorderStops(r, b)
    \/ TimerTick
    \/ \E f \in Candidates : HandleFileUpload(f)
    \/ \E i \in 1..MaxExchanges, s \in Statuses : ResponseNotOk(i, s)
    \/ \E i \in 1..MaxExchanges, m \in FailureMessages : FetchRejects(i, m)
    \/ \E i \in 1..MaxExchanges : ResponseOk(i)
    \/ \E i \in 1..MaxExchanges, m \in FailureMessages : JsonRejects(i, m)
    \/ \E i \in 1..MaxExchanges, d \in AllBodies, t \in 0..MaxExchanges :
          JsonResolves(i, d, t)
    \/ CancelUpload
    \/ CopyToClipboard
    \/ ClipboardResolves
    \/ ClipboardRejects
    \/ SuccessTimeout
    \/ ClearCurrent
    \/ ClearHistory
    \/ \E k \in 1..HistoryLimit : LoadFromHistory(k)

Spec == Init /\ [][Next]_vars

\* The user works with audio files only: no microphone, no clipboard.
Files ==
    \/ \E f \in Candidates : HandleFileUpload(f)
    \/ \E i \in 1..MaxExchanges, s \in Statuses : ResponseNotOk(i, s)
    \/ \E i \in 1..MaxExchanges, m \in FailureMessages : FetchRejects(i, m)
    \/ \E i \in 1..MaxExchanges : ResponseOk(i)
    \/ \E i \in 1..MaxExchanges, m \in FailureMessages : JsonRejects(i, m)
    \/ \E i \in 1..MaxExchanges, d \in ResponseBodies, t \in 0..MaxExchanges :
          JsonResolves(i, d, t)
    \/ CancelUpload
    \/ ClearCurrent
    \/ ClearHistory
    \/ \E k \in {1} : LoadFromHistory(k)

SpecFiles == Init /\ [][Files]_vars

\* The user records and uploads, so that exchanges overlap: a file picked
\* between stopRecording and the recorder's stop event starts an exchange
\* that the recorder's own exchange then supersedes.  The chunk and timer
\* events of a recording are left out (they write audioChunksRef, the
\* recorders' chunk counters and recordingTime only), every recording ends
\* with a non-empty last chunk, and the transcript and history buttons are
\* not pressed; the files picked are ones that pass the checks.
AcceptedFiles == {f \in Candidates : Validate(f) = NoError}

Race ==
    \/ \E f \in AcceptedFiles : HandleFileUpload(f)
    \/ \E i \in 1..MaxExchanges, s \in Statuses : ResponseNotOk(i, s)
    \/ \E i \in 1..MaxExchanges, m \in FailureMessages : FetchRejects(i, m)
    \/ \E i \in 1..MaxExchanges : ResponseOk(i)
    \/ \E i \in 1..MaxExchanges, m \in FailureMessages : JsonRejects(i, m)
    \/ \E i \in 1..MaxExchanges, d \in ResponseBodies, t \in 0..MaxExchanges :
          JsonResolves(i, d, t)
    \/ CancelUpload
    \/ StartRecording
    \/ GrantSucceeds
    \/ \E m \in GrantFailures : GrantFails(m)
    \/ StopRecording
    \/ \E r \in 1..MaxExchanges : RecorderStops(r, TRUE)

SpecRace == Init /\ [][Race]_vars

\* the network answers every request: each pending fetch resolves or
\* rejects, and each body read resolves or rejects
Answer(i) ==
    \/ \E s \in Statuses : ResponseNotOk(i, s)
    \/ \E m \in FailureMessages : FetchRejects(i, m)
    \/ ResponseOk(i)
    \/ \E m \in FailureMessages : JsonRejects(i, m)
    \/ \E d \in ResponseBodies, t \in 0..MaxExchanges : JsonResolves(i, d, t)

FairRace == SpecRace /\ \A i \in 1..MaxExchanges : WF_vars(Answer(i))

\* The page is opened on whatever the store holds: nothing, a text that
\* JSON.parse rejects, a text that parses to something else than a list, or
\* the list an earlier page session wrote.  The user then uploads files
\* that are transcribed and works with the history, of which the first and
\* the tenth entry are the ones clicked.
AnyStore ==
    {Absent, Malformed, NotAList, Stored(Earlier(1)), Stored(Earlier(HistoryLimit))}

InitAnyStore ==
    /\ recording = FALSE
    /\ transcript = EmptyText
    /\ loading = FALSE
    /\ error = NoError
    /\ success = FALSE
    /\ recordingTime = 0
    /\ audioUrl = EmptyUrl
    /\ selectedHistory = NullId
    /\ uploadController = 0
    /\ mediaRecorderRef = 0
    /\ audioChunksRef = << >>
    /\ recorders = << >>
    /\ pendingGrants = 0
    /\ exchanges = << >>
    /\ createdUrls = 0
    /\ revokedUrls = {}
    /\ now = 0
    /\ clipboardWrites = 0
    /\ successTimers = 0
    /\ \E ls \in AnyStore :
          /\ history = LoadHistory(ls)
          /\ localStorage = SaveEffect(LoadHistory(ls), ls)

Browse ==
    \/ \E f \in AcceptedFiles : HandleFileUpload(f)
    \/ \E i \in 1..MaxExchanges : ResponseOk(i)
    \/ \E i \in 1..MaxExchanges, d \in AllBodies, t \in 0..MaxExchanges :
          JsonResolves(i, d, t)
    \/ ClearCurrent
    \/ ClearHistory
    \/ \E k \in {1, HistoryLimit} : LoadFromHistory(k)

SpecBrowse == InitAnyStore /\ [][Browse]_vars

\* The user works with the microphone only: the record button, the chunks
\* and the timer of a recording, the recorder's stop event and the exchange
\* it starts, which the backend refuses or the user cancels.
Capture ==
    \/ StartRecording
    \/ GrantSucceeds
    \/ \E m \in GrantFailures : GrantFails(m)
    \/ \E r \in 1..MaxExchanges, b \in BOOLEAN : DataAvailable(r, b)
    \/ TimerTick
    \/ StopRecording
    \/ \E r \in 1..MaxExchanges, b \in BOOLEAN : RecorderStops(r, b)
    \/ \E i \in 1..MaxExchanges, s \in Statuses : ResponseNotOk(i, s)
    \/ CancelUpload

SpecCapture == Init /\ [][Capture]_vars

\* the browser delivers the stop event of every stopped recorder, and the
\* network answers every request
FairStops ==
    /\ FairRace
    /\ \A r \in 1..MaxExchanges : WF_vars(RecorderStops(r, TRUE))

(* ------------------------------- properties ---------------------------- *)
Exchanges == 1..Len(exchanges)

\* exchange i settles in this step with status st
Settles(i, st) == Pending(i) /\ exchanges'[i].status = st

\* a URL of this page session that was passed to URL.revokeObjectURL
Revoked(u) == u \in 1..createdUrls /\ u \in revokedUrls

\* the URLs of the records in h
UrlsOf(h) == {h[k].audioUrl : k \in 1..Len(h)}

\* C1: the history never holds more than 10 records, and every successful
\* completion puts its record at index 0 in front of the records that were
\* there, in their order, dropping the last one when there were already 10.
C1_InsertNewestFirstBounded ==
    /\ [](Len(history) <= 10)
    /\ [][\A i \in Exchanges :
            Settles(i, "Succeeded") =>
               /\ Len(history') = IF Len(history) < 10 THEN Len(history) + 1 ELSE 10
               /\ history'[1].audioUrl = exchanges[i].audioUrl
               /\ history'[1].filename = exchanges[i].filename
               /\ \A k \in 2..Len(history') : history'[k] = history[k - 1]]_vars

\* an insert into a full list has happened: the newest record is in front
\* and the former ninth record is now the last
C1_Witness ==
    /\ Len(history) = 10
    /\ history[1].audioUrl \in 1..createdUrls
    /\ history[10] = Earlier(10)[9]

\* C2: no record in the history refers to a resource that was revoked.
C2_NoRecordRevoked ==
    \A k \in 1..Len(history) : ~Revoked(history[k].audioUrl)

\* C3: cancelUpload on the pending exchange whose controller is stored
\* settles it as Cancelled with the error 'Upload cancelled' and leaves the
\* history and its stored copy alone; a cancelled exchange stays cancelled
\* and never has a record in the history.
C3_CancelSettlesWithoutRecord ==
    /\ [][(CancelUpload /\ Pending(uploadController)) =>
             /\ exchanges'[uploadController].status = "Cancelled"
             /\ error' = "Upload cancelled"
             /\ history' = history
             /\ localStorage' = localStorage]_vars
    /\ [][\A i \in Exchanges :
             exchanges[i].status = "Cancelled" => exchanges'[i].status = "Cancelled"]_vars
    /\ [](\A i \in Exchanges :
             exchanges[i].status = "Cancelled" => exchanges[i].audioUrl \notin UrlsOf(history))

\* an exchange was cancelled and its error is shown, while another exchange
\* of the session succeeded
C3_Witness ==
    \E i, j \in Exchanges :
        /\ exchanges[i].status = "Cancelled"
        /\ exchanges[j].status = "Succeeded"
        /\ error = "Upload cancelled"

\* C4: with the network answering every request, each pending exchange
\* settles; it settles as Succeeded, Failed or Cancelled, in a step that
\* clears the loading flag and the stored controller, and it keeps the
\* status it settled with.
C4_PendingSettlesAndClearsMarker ==
    /\ \A i \in 1..MaxExchanges :
          Pending(i) ~> (i \in Exchanges /\ exchanges[i].status # "Pending")
    /\ [][\A i \in Exchanges :
             (Pending(i) /\ exchanges'[i].status # "Pending") =>
                /\ exchanges'[i].status \in {"Succeeded", "Failed", "Cancelled"}
                /\ loading' = FALSE
                /\ uploadController' = 0]_vars
    /\ [][\A i \in Exchanges :
             exchanges[i].status # "Pending" => exchanges'[i].status = exchanges[i].status]_vars

\* one exchange of each outcome has settled and the marker is clear
C4_Witness ==
    /\ \E i, j \in Exchanges :
          /\ exchanges[i].status = "Failed"
          /\ exchanges[j].status = "Succeeded"
    /\ ~loading
    /\ uploadController = 0

\* C5: the error message and the success flag are never set together.
C5_ErrorExcludesSuccess == ~(error # "" /\ success)

\* C6: an insert into a full history revokes the URL of the record it drops,
\* and nothing else.
C6_TruncationRevokes ==
    [][\A i \in Exchanges :
          (Settles(i, "Succeeded") /\ Len(history) = 10) =>
             revokedUrls' = revokedUrls \cup {history[10].audioUrl}]_vars

\* what the validation rules say of a picked file
BadType(f) == ~StartsWith(f.type, <<"a", "u", "d", "i", "o", "/">>)
TooBig(f) == f.size > 10 * 1024 * 1024

\* C7: a picked file is refused with the invalid-type message exactly when
\* its type does not begin with audio/, otherwise with the oversize message
\* exactly when it is larger than 10 MiB; a refused file starts no exchange,
\* any other file starts one.
C7_ValidationVerdict ==
    [][\A f \in Candidates :
          HandleFileUpload(f) =>
             /\ (error' = "Please select a valid audio file") <=> BadType(f)
             /\ ~BadType(f) => ((error' = "File size must be less than 10MB") <=> TooBig(f))
             /\ (BadType(f) \/ TooBig(f)) => exchanges' = exchanges
             /\ ~(BadType(f) \/ TooBig(f)) =>
                   /\ Len(exchanges') = Len(exchanges) + 1
                   /\ exchanges'[Len(exchanges')].status = "Pending"]_vars

\* a file was refused for its size while an earlier upload is in the history
C7_Witness ==
    /\ error = "File size must be less than 10MB"
    /\ \E i \in Exchanges : exchanges[i].status = "Succeeded"

\* C8: a refused file changes the error message and nothing else.
C8_RejectionChangesErrorOnly ==
    [][\A f \in Candidates :
          (HandleFileUpload(f) /\ (BadType(f) \/ TooBig(f))) =>
             /\ error' # ""
             /\ UNCHANGED << recording, transcript, loading, success, recordingTime,
                             audioUrl, history, selectedHistory, uploadController,
                             mediaRecorderRef, audioChunksRef, recorders,
                             pendingGrants, localStorage, exchanges, createdUrls,
                             revokedUrls, now, clipboardWrites, successTimers >>]_vars

\* a file was refused while the result of an earlier upload is on display
C8_Witness ==
    /\ error = "Please select a valid audio file"
    /\ success
    /\ Truthy(transcript)
    /\ audioUrl \in 1..createdUrls

\* C9: clearHistory passes the URL of every record to revokeObjectURL,
\* empties the list and removes the stored value, so that a load from the
\* store gives the empty list.
C9_ClearHistoryRemovesAll ==
    [][ClearHistory =>
          /\ \A k \in 1..Len(history) :
                IsBlobUrl(history[k].audioUrl) => history[k].audioUrl \in revokedUrls'
          /\ history' = << >>
          /\ ~localStorage'.present
          /\ LoadHistory(localStorage') = << >>]_vars

\* the history was cleared after an upload of this session had been added
\* to a stored history of 10 records
C9_Witness ==
    /\ history = << >>
    /\ ~localStorage.present
    /\ \E i \in Exchanges :
          /\ exchanges[i].status = "Succeeded"
          /\ Revoked(exchanges[i].audioUrl)
    /\ Cardinality(revokedUrls) >= 10

\* the messages a failed exchange can show
FailureTexts ==
    {ServerError(st) : st \in Statuses} \cup (FailureMessages \ {""})
    \cup {"Failed to transcribe audio"}

\* C10: the history changes by an insert only in the step in which an
\* exchange succeeds, which inserts one record; a failing exchange leaves
\* the history and its stored copy alone, shows its message, and leaves the
\* success flag false.
C10_OnlySuccessInserts ==
    [][ ( (Len(history') > 0 /\ history' # history) =>
             \E i \in Exchanges :
                /\ Settles(i, "Succeeded")
                /\ Len(history') <= Len(history) + 1
                /\ history'[1].audioUrl = exchanges[i].audioUrl )
        /\
        ( \A j \in Exchanges :
              Settles(j, "Failed") =>
                 /\ history' = history
                 /\ localStorage' = localStorage
                 /\ error' \in FailureTexts
                 /\ success' = FALSE ) ]_vars

\* C11: a failed grant shows the device error and leaves the recording
\* flag, the elapsed time, the chunk buffer, the recorders and the exchanges
\* as they were (no recording, no payload, no upload); a grant that succeeds
\* makes the recording active with transcript, audio URL, error and success
\* flag in their reset state.
C11_GrantOutcome ==
    [][ ( \A m \in GrantFailures :
             GrantFails(m) =>
                /\ error' = "Microphone error: Permission denied"
                /\ UNCHANGED << recording, recordingTime, audioChunksRef, recorders,
                                mediaRecorderRef, exchanges, loading, createdUrls >> )
        /\
        ( GrantSucceeds =>
             /\ recording' = TRUE
             /\ transcript' = << >>
             /\ audioUrl' = 0
             /\ error' = ""
             /\ success' = FALSE ) ]_vars

\* C12: loadFromHistory shows the clicked record: transcript, audio URL and
\* selected id become the record's; the history, its stored copy, the
\* loading flag, the stored controller and the exchanges stay as they were,
\* no URL is created and none is revoked.
C12_LoadFromHistoryFrame ==
    [][\A k \in 1..HistoryLimit :
          LoadFromHistory(k) =>
             /\ transcript' = history[k].text
             /\ audioUrl' = history[k].audioUrl
             /\ selectedHistory' = history[k].id
             /\ UNCHANGED << history, localStorage, loading, uploadController,
                             exchanges, createdUrls, revokedUrls >>]_vars

\* a record of the history is on display while a later upload is in flight
C12_Witness ==
    /\ loading
    /\ Pending(uploadController)
    /\ Len(history) > 0
    /\ selectedHistory = history[1].id
    /\ transcript = history[1].text
    /\ audioUrl = history[1].audioUrl
    /\ audioUrl # exchanges[uploadController].audioUrl

\* the stored items are the records of h, all of them, in order, field by field
HoldsAll(items, h) ==
    /\ Len(items) = Len(h)
    /\ \A k \in 1..Len(h) :
          items[k] = << h[k].id, h[k].timestamp, h[k].text, h[k].filename,
                        h[k].audioUrl, h[k].wordCount, h[k].charCount >>

\* C13: the step that inserts a record leaves in the store the whole new
\* list; the stored value changes only in a step that changes the list; and
\* a list in the store is always the whole in-memory list, never a part.
C13_InsertPersistsWholeList ==
    /\ [][\A i \in Exchanges :
             Settles(i, "Succeeded") =>
                /\ localStorage'.present
                /\ localStorage'.wellFormed
                /\ HoldsAll(localStorage'.items, history')]_vars
    /\ [][localStorage' # localStorage => history' # history]_vars
    /\ []((localStorage.present /\ localStorage.wellFormed) =>
             HoldsAll(localStorage.items, history))

\* the store holds a full list whose newest record comes from an upload of
\* this session, put in front of the records of an earlier session
C13_Witness ==
    /\ localStorage.present
    /\ Len(localStorage.items) = 10
    /\ \E i \in Exchanges :
          /\ exchanges[i].status = "Succeeded"
          /\ localStorage.items[1][5] = exchanges[i].audioUrl
    /\ localStorage.items[2][5] < 0

\* C14: writing the list to the store and loading it again gives the same
\* records in the same order, field by field; a stored value that is not a
\* well-formed list gives the empty history, and the component is on the
\* page and working whatever the store held.
C14_RoundTripAndMalformedLoad ==
    /\ LoadHistory(Stored(history)) = history
    /\ (localStorage.present /\ ~(localStorage.wellFormed /\ localStorage.list)) =>
          history = << >>
    /\ Mounted

\* C15 as claimed: the transcript of a success response is its transcription
\* field if the body has one, else its text field if the body has one, else
\* 'No transcription available'; the inserted record has the same text.
C15_FieldIfPresent ==
    [][\A i \in Exchanges, d \in AllBodies, t \in 0..MaxExchanges :
          JsonResolves(i, d, t) =>
             /\ transcript' = IF d.hasTranscription THEN d.transcription
                               ELSE IF d.hasText THEN d.text
                               ELSE NoTranscription
             /\ history'[1].text = transcript']_vars

\* C15 as amended: the transcript of a success response is its
\* transcription field if the body has one that is not empty, else its text
\* field if the body has one that is not empty, else 'No transcription
\* available'; the inserted record has the same text.
C15_FieldIfNotEmpty ==
    [][\A i \in Exchanges, d \in AllBodies, t \in 0..MaxExchanges :
          JsonResolves(i, d, t) =>
             /\ transcript' = IF d.hasTranscription /\ d.transcription # << >>
                               THEN d.transcription
                               ELSE IF d.hasText /\ d.text # << >> THEN d.text
                               ELSE NoTranscription
             /\ history'[1].text = transcript']_vars

\* a body with an empty transcription and the text "yo" was answered: the
\* text is on display and in the newest record
C15_Witness ==
    /\ transcript = <<"y", "o">>
    /\ success
    /\ Len(history) > 0
    /\ history[1].text = <<"y", "o">>

\* C16: no two records of the history have the same id.
C16_IdsUnique ==
    \A j, k \in 1..Len(history) : j # k => history[j].id # history[k].id

\* C17: no audio URL is held by two records of the history, and the step in
\* which an exchange succeeds, which puts the exchange's URL into a record,
\* leaves the current audio URL different from it.
C17_ExclusiveOwnership ==
    /\ [](\A j, k \in 1..Len(history) :
             j # k => history[j].audioUrl # history[k].audioUrl)
    /\ [][\A i \in Exchanges :
             Settles(i, "Succeeded") =>
                /\ history'[1].audioUrl = exchanges[i].audioUrl
                /\ audioUrl' # exchanges[i].audioUrl]_vars

\* C18: startRecording, and handleFileUpload on a file that passes the
\* checks, leave the transcript empty, the error empty, the success flag
\* false, no history entry selected and the elapsed time 0; the audio URL is
\* empty after startRecording and the new file's URL after the upload.
C18_StartResetsSession ==
    [][ ( StartRecording =>
             /\ transcript' = << >>
             /\ audioUrl' = 0
             /\ error' = ""
             /\ success' = FALSE
             /\ selectedHistory' = NullId
             /\ recordingTime' = 0 )
        /\
        ( \A f \in AcceptedFiles :
             HandleFileUpload(f) =>
                /\ transcript' = << >>
                /\ audioUrl' = exchanges'[Len(exchanges')].audioUrl
                /\ error' = ""
                /\ success' = FALSE
                /\ selectedHistory' = NullId
                /\ recordingTime' = 0 ) ]_vars

\* C19: stopRecording puts the stored recorder into its stopping state with
\* the recording flag off; the recorder's stop event makes one payload of
\* the chunk buffer and starts an exchange for it under the name
\* recorded_audio.webm; every stopped recorder ends inactive with its
\* stream released, and the stream of a recording whose exchange has
\* settled is released.
C19_StopUploadsAndReleases ==
    /\ [][StopRecording =>
             /\ recorders'[mediaRecorderRef].state = "stopping"
             /\ recording' = FALSE]_vars
    /\ [][\A r \in 1..MaxExchanges :
             RecorderStops(r, TRUE) =>
                /\ Len(exchanges') = Len(exchanges) + 1
                /\ exchanges'[Len(exchanges')].filename = "recorded_audio.webm"
                /\ exchanges'[Len(exchanges')].payload = audioChunksRef'
                /\ exchanges'[Len(exchanges')].recorder = r
                /\ exchanges'[Len(exchanges')].status = "Pending"
                /\ recorders'[r].state = "inactive"]_vars
    /\ \A r \in 1..MaxExchanges :
          (r \in 1..Len(recorders) /\ recorders[r].state = "stopping")
             ~> (/\ r \in 1..Len(recorders)
                 /\ recorders[r].state = "inactive"
                 /\ recorders[r].released)
    /\ [](\A i \in Exchanges :
             (exchanges[i].recorder # 0 /\ exchanges[i].status # "Pending") =>
                recorders[exchanges[i].recorder].released)

\* a recording was stopped, its payload was sent and refused, and its
\* stream is released
C19_Witness ==
    \E i \in Exchanges :
        /\ exchanges[i].recorder # 0
        /\ exchanges[i].filename = "recorded_audio.webm"
        /\ Len(exchanges[i].payload) > 0
        /\ exchanges[i].status = "Failed"
        /\ recorders[exchanges[i].recorder].released
        /\ ~recording

\* C20: the payload made at a recorder's stop event holds, in the order of
\* their emission, exactly the non-empty chunks that the recorder emitted
\* before stop was called, as far as the chunks of that recorder emitted
\* before the call go.
C20_PayloadKeepsChunks ==
    [][\A r \in 1..MaxExchanges, b \in BOOLEAN :
          RecorderStops(r, b) =>
             SelectSeq(exchanges'[Len(exchanges')].payload,
                       LAMBDA c : c[1] = r /\ c[2] <= recorders[r].emitted)
                = recorders[r].chunks]_vars

\* C21: a timer tick happens only while recording and adds exactly one to
\* the elapsed time; while not recording the elapsed time is 0 and stays
\* 0; the step that ends a recording sets it to 0; and every recording that
\* starts, starts with the elapsed time 0.
C21_ElapsedTime ==
    /\ [][TimerTick => (recording /\ recordingTime' = recordingTime + 1)]_vars
    /\ [](~recording => recordingTime = 0)
    /\ [][(recording /\ ~recording') => recordingTime' = 0]_vars
    /\ [][GrantSucceeds => recordingTime' = 0]_vars

\* C22: every URL made in this page session and not revoked is the current
\* audio URL, the URL of a record in the history, or the URL of an exchange
\* that is still pending (which a record may yet take).
C22_NoLeakOnReplacement ==
    \A u \in 1..createdUrls :
        u \notin revokedUrls =>
            \/ u = audioUrl
            \/ u \in UrlsOf(history)
            \/ \E i \in Exchanges : Pending(i) /\ exchanges[i].audioUrl = u

\* C23: while an exchange is pending the loading flag is set and the stored
\* controller is that of the newest pending exchange, so that cancelUpload
\* aborts it; and the step in which an older exchange settles leaves the
\* loading flag and the stored controller of a newer pending one in place.
C23_MarkerOfNewestPending ==
    /\ [](\A i \in Exchanges :
             Pending(i) =>
                /\ loading
                /\ uploadController # 0
                /\ Pending(uploadController)
                /\ uploadController >= i)
    /\ [][\A i, j \in Exchanges :
             (i < j /\ Pending(i) /\ Pending(j)
                /\ exchanges'[i].status # "Pending" /\ exchanges'[j].status = "Pending") =>
                (loading' /\ uploadController' = uploadController)]_vars

\* C24: at most one granted stream is unreleased at a time, and every
\* recorder that is recording is the one stored in mediaRecorderRef, the
\* only one stopRecording can stop.
C24_OneStreamStoppable ==
    /\ Cardinality({r \in 1..Len(recorders) : ~recorders[r].released}) <= 1
    /\ \A r \in 1..Len(recorders) :
          recorders[r].state = "recording" => r = mediaRecorderRef

\* C25: the current audio URL is never a URL of this page session that was
\* passed to revokeObjectURL.
C25_CurrentAudioNotRevoked == ~Revoked(audioUrl)

\* C26: the payload made at a recorder's stop event holds chunks of that
\* recorder only, and holds every non-empty chunk that the recorder had
\* emitted.
C26_PayloadOfOneRecording ==
    [][\A r \in 1..MaxExchanges, b \in BOOLEAN :
          RecorderStops(r, b) =>
             LET payload == exchanges'[Len(exchanges')].payload
             IN  /\ \A k \in 1..Len(payload) : payload[k][1] = r
                 /\ \A n \in 1..Len(recorders[r].chunks) :
                       \E k \in 1..Len(payload) : payload[k] = recorders[r].chunks[n]]_vars

====
